---- MODULE Spec2Model ----
(***************************************************************************)
(* A model of src/python/nnfusion/session.py: the PTSession constructor    *)
(* (export, codegen, patch, build, artifact load, binding validation),     *)
(* run_by_nnf, and the output-contract inference helpers.                   *)
(*                                                                         *)
(* Encoding notes.                                                         *)
(*  - A shape is a sequence of naturals; the value Dyn (0) stands for a     *)
(*    dimension that is not a Python int (a symbolic size).                 *)
(*  - None is the record NoneVal; a Python dict is a function whose         *)
(*    DOMAIN is its key set.                                                *)
(*  - A buffer reference is a record [kind, name, n]; two references are   *)
(*    the same object iff the records are equal.                            *)
(***************************************************************************)
EXTENDS Integers, Sequences, FiniteSets, TLC

VARIABLES
    pc,              \* position of the constructor / of run_by_nnf
    err,             \* the exception that ended construction (NoErr if none)
    trace,           \* external steps invoked by the constructor, in order
    model,           \* the caller's live torch model (self._model aliases it)
    codegen_flags,   \* the codegen_flags argument as the caller passed it
    _torch_weights,  \* self._torch_weights: name -> weight tensor
    _input_desc,     \* self._input_desc
    _output_desc,    \* self._output_desc
    _device,         \* self._device
    _const_folding,  \* self._const_folding
    _build_nnf,      \* self._build_nnf
    _codegen_flags,  \* self._codegen_flags (defaults merged with the argument)
    nnf_inputs,      \* Executor.get_inputs(): the artifact's declared inputs
    nnf_outputs,     \* Executor.get_outputs(): the artifact's declared outputs
    _inputs,         \* self._inputs: name -> buffer reference or None
    _outputs,        \* self._outputs: name -> output buffer
    nextBuf,         \* allocator: identity of the next buffer object created
    outData,         \* contents of the output buffers, by buffer id
    feed_data,       \* run_by_nnf argument of the call in progress
    check_nan,       \* run_by_nnf argument check_nan, from where the call reads it (line 266)
    invoked,         \* artifact invocations made by the call in progress
    result,          \* outcome of the last finished run_by_nnf call
    idesc,           \* generate_output_desc: its input_desc argument
    odesc,           \* generate_output_desc: its return value
    _model_format    \* self._model_format

vars == <<pc, err, trace, model, codegen_flags, _torch_weights, _input_desc,
          _output_desc, _device, _const_folding, _build_nnf, _codegen_flags,
          nnf_inputs, nnf_outputs, _inputs, _outputs, nextBuf, outData,
          feed_data, check_nan, invoked, result, idesc, odesc, _model_format>>

----------------------------------------------------------------------------
(* Bounds and value domains *)

MaxDim == 2        \* concrete dimension sizes are 1..MaxDim
MaxRank == 1       \* shapes of the inference specification have rank 0..MaxRank
MaxInputs == 2     \* longest input contract of the inference specification
NumFeedBufs == 2   \* distinct caller buffers a feed may hold

Dyn == 0

\* Buffer references: None, a live weight tensor of the model, a tensor the
\* caller feeds, or an output buffer the session allocated (numbered by n).
NoneVal == [kind |-> "None", name |-> "", n |-> 0]
WeightRef(name) == [kind |-> "weight", name |-> name, n |-> 0]
FeedRef(k) == [kind |-> "feed", name |-> "", n |-> k]
OutRef(k) == [kind |-> "out", name |-> "", n |-> k]

Dtypes == {"float32", "int64"}

\* Shapes used by the session specification.
S1 == <<2>>
S2 == <<1, 2>>
SDyn == <<Dyn>>

----------------------------------------------------------------------------
(* Python dict helpers *)

Put(d, k, v) == [n \in (DOMAIN d) \cup {k} |-> IF n = k THEN v ELSE d[n]]

Update(d, e) == [n \in (DOMAIN d) \cup (DOMAIN e) |-> IF n \in DOMAIN e THEN e[n] ELSE d[n]]

EmptyDict == [n \in {} |-> NoneVal]

\* {desc.name: desc for desc in descs}: a later descriptor replaces an earlier one.
RECURSIVE ByName(_)
ByName(descs) ==
    IF descs = <<>> THEN EmptyDict
    ELSE LET n == Len(descs)
         IN  Put(ByName(SubSeq(descs, 1, n - 1)), descs[n].name, descs[n])

Names(descs) == {descs[i].name : i \in 1..Len(descs)}

----------------------------------------------------------------------------
(* dtypes.str2type, description.IODescription, data_format.cast_pytorch_tensor *)

IODescription(name, shape, dtype) ==
    [name |-> name, shape |-> shape, dtype |-> dtype, num_classes |-> 0]

\* str2type[dtype].torch_type
torch_type(dtype) == <<"torch", dtype>>

\* str2type[str(t.dtype).split(".")[-1]].type_str
type_str(torch_dtype) == torch_dtype[Len(torch_dtype)]

\* cast_pytorch_tensor(t): a wrapper whose .reference is the tensor t itself
cast_pytorch_tensor(ref) == ref

----------------------------------------------------------------------------
(* tensor2desc, generate_sample, generate_output_desc *)

tensor2desc(pt_tensor, name) ==
    IODescription(name, pt_tensor.shape, type_str(pt_tensor.dtype))

sample_size(shape) == [i \in 1..Len(shape) |-> IF shape[i] # Dyn THEN shape[i] ELSE 1]

\* Mutant of generate_sample: the sample is created with the default dtype
generate_sample_default_dtype(desc, device) ==
    [shape |-> sample_size(desc.shape),
     dtype |-> torch_type("float32"),
     device |-> device,
     fill |-> IF desc.num_classes # 0 THEN "randint" ELSE "ones"]

generate_sample(desc, device) ==
    [shape |-> sample_size(desc.shape),
     dtype |-> torch_type(desc.dtype),
     device |-> device,
     fill |-> IF desc.num_classes # 0 THEN "randint" ELSE "ones"]

\* The forward call of a model: "identity" returns its arguments (a single
\* Tensor for one argument, a tuple otherwise); any other model is a record
\* holding the value it returns.
Forward(m, args) ==
    IF m.forward = "identity"
    THEN IF Len(args) = 1 THEN [tag |-> "Tensor", val |-> <<args[1]>>]
                          ELSE [tag |-> "tuple", val |-> args]
    ELSE m.out

\* f"output_{i}" for the i-th element of enumerate(out), counted from 0
output_name(i) == "output_" \o ToString(i - 1)

generate_output_desc(m, input_desc, device) ==
    LET fake_inputs == [i \in 1..Len(input_desc) |-> generate_sample(input_desc[i], device)]
        out == Forward(m, fake_inputs).val
    IN  [i \in 1..Len(out) |-> tensor2desc(out[i], output_name(i))]

----------------------------------------------------------------------------
(* Exceptions *)

NoErr == [type |-> "none", what |-> "", args |-> <<>>]

Raise(type, what, args) == [type |-> type, what |-> what, args |-> args]

(* Codegen flags: a dict from flag name to 0 or 1 *)

Get(d, k, default) == IF k \in DOMAIN d THEN d[k] ELSE default

Truthy(v) == v # 0

training_mode(flags) == Truthy(Get(flags, "training_mode", 0))

----------------------------------------------------------------------------
(* Arguments of the constructor and of run_by_nnf, and the environment's answers *)

Tensor(shape, dtype) == [shape |-> shape, dtype |-> torch_type(dtype)]

Pair(name, tensor) == [name |-> name, tensor |-> tensor]

\* named_parameters() and named_buffers() of the model, as ordered (name, tensor) pairs
ParamChoices == {<<>>, <<Pair("w", Tensor(S1, "float32"))>>}
BufferChoices == {<<>>, <<Pair("b", Tensor(S1, "float32"))>>}

WeightNamesOf(params, buffers) ==
    {params[i].name : i \in 1..Len(params)} \cup {buffers[i].name : i \in 1..Len(buffers)}

\* The caller's model: its weights, where they live, and which of them hold NaN or Inf
Models ==
    {[params |-> t[1], buffers |-> t[2], placement |-> "cpu", nan |-> t[3], forward |-> "net"] :
        t \in {u \in ParamChoices \X BufferChoices \X SUBSET {"w"} :
                  /\ u[3] \subseteq WeightNamesOf(u[1], u[2])
                  /\ (u[2] # <<>> => u[1] # <<>> /\ u[3] = {})}}

Devices == {"cuda:0", "cpu", "rocm", "tpu"}

\* word in device (Python substring test), for the devices above
In(word, device) == <<word, device>> \in {<<"cuda", "cuda:0">>, <<"cpu", "cpu">>, <<"rocm", "rocm">>}

Formats == {"onnx", "tensorflow"}

InputDescChoices ==
    {<<IODescription("x", S1, "float32")>>,
     <<IODescription("x", S1, "float32"), IODescription("w", S1, "float32")>>,
     <<IODescription("x", S1, "float32"), IODescription("b", S2, "int64")>>}

\* The output_desc argument: None (given = FALSE), or the caller's declared outputs
OutputDescChoices ==
    {[given |-> FALSE, descs |-> <<>>],
     [given |-> TRUE, descs |-> <<IODescription("y", S1, "float32")>>],
     [given |-> TRUE, descs |-> <<IODescription("y", S1, "float32"),
                                  IODescription("w", S2, "int64")>>],
     [given |-> TRUE, descs |-> <<IODescription("y", SDyn, "float32")>>]}

\* What the model's forward call does during contract inference
ForwardOutcomes ==
    {[tag |-> "raise", val |-> <<>>],
     [tag |-> "Tensor", val |-> <<Tensor(S1, "float32")>>]}

FlagChoices ==
    {f \in UNION {[K -> {0, 1}] : K \in SUBSET {"extern_result_memory", "training_mode"}} :
        "training_mode" \in DOMAIN f => f["training_mode"] = 1}

\* Descriptors an artifact may declare, by name
ArtifactInputVariants(name) ==
    IF name = "x"
    THEN {IODescription("x", s, "float32") : s \in {S1, S2, SDyn}} \cup {IODescription("x", S1, "int64")}
    ELSE IF name = "w"
    THEN {IODescription("w", S1, "float32"), IODescription("w", S2, "int64")}
    ELSE {IODescription(name, S1, "float32")}

ArtifactOutputVariants(name) ==
    IF name = "y"
    THEN {IODescription("y", S1, "float32"), IODescription("y", S2, "float32"),
          IODescription("y", S1, "int64")}
    ELSE IF name = "w"
    THEN {IODescription("w", S2, "int64"), IODescription("w", S1, "float32")}
    ELSE {IODescription(name, S1, "float32")}

\* An optional descriptor: the empty list or a list of one
Opt(S) == {<<>>} \cup {<<d>> : d \in S}

\* Executor.get_inputs() / get_outputs(): descriptor lists with distinct names
ArtifactInputs ==
    {a \o b \o c : a \in Opt(ArtifactInputVariants("x")),
                   b \in Opt(ArtifactInputVariants("w")),
                   c \in Opt(ArtifactInputVariants("b"))}

ArtifactOutputs ==
    {a \o b \o c : a \in Opt(ArtifactOutputVariants("y")),
                   b \in Opt(ArtifactOutputVariants("w")),
                   c \in Opt(ArtifactOutputVariants("output_0"))}

\* Tensors the caller may feed under a name
FeedVariants(name) ==
    IF name = "x" THEN {FeedRef(k) : k \in 1..NumFeedBufs} ELSE {FeedRef(1)}

\* feed_data: a dict from name to the tensor fed under it
Feeds ==
    {f \in UNION {[K -> {FeedRef(k) : k \in 1..NumFeedBufs}] : K \in SUBSET {"x", "w", "unknown"}} :
        \A name \in DOMAIN f : f[name] \in FeedVariants(name)}

----------------------------------------------------------------------------
(* PTSession.__init__ *)

Init ==
    /\ pc = "new"
    /\ err = NoErr
    /\ trace = <<>>
    /\ model \in Models
    /\ codegen_flags = EmptyDict
    /\ _torch_weights = <<>>
    /\ _input_desc = <<>>
    /\ _output_desc = <<>>
    /\ _device = ""
    /\ _const_folding = FALSE
    /\ _build_nnf = FALSE
    /\ _codegen_flags = EmptyDict
    /\ nnf_inputs = <<>>
    /\ nnf_outputs = <<>>
    /\ _inputs = EmptyDict
    /\ _outputs = EmptyDict
    /\ nextBuf = 1
    /\ outData = EmptyDict
    /\ feed_data = EmptyDict
    /\ check_nan = FALSE
    /\ invoked = 0
    /\ result = NoErr
    /\ idesc = <<>>
    /\ odesc = <<>>
    /\ _model_format = ""

\* The constructor ends with exception e: the session object is never returned.
Fail(e) == pc' = "Failed" /\ err' = e
\* Mutant of InitFields: the model format is stored without being checked
InitFields_FormatUnchecked ==
    /\ pc = "new"
    /\ \E model_format \in Formats, input_desc \in InputDescChoices, device \in Devices :
          /\ _model_format' = model_format
          /\ _torch_weights' = model.params \o model.buffers
          /\ _input_desc' = input_desc
          /\ _device' = device
          /\ pc' = "output_desc"
    /\ UNCHANGED <<err, trace, model, codegen_flags, _output_desc, _const_folding, _build_nnf,
                   _codegen_flags, nnf_inputs, nnf_outputs, _inputs, _outputs, nextBuf,
                   outData, feed_data, check_nan, invoked, result, idesc, odesc>>

\* Lines 126-138: model_format check, self._model_format, self._torch_weights, self._input_desc, self._device
InitFields ==
    /\ pc = "new"
    /\ \E model_format \in Formats, input_desc \in InputDescChoices, device \in Devices :
          IF model_format # "onnx"
          THEN /\ Fail(Raise("Exception", "format not supported yet", <<model_format>>))
               /\ UNCHANGED <<_model_format, _torch_weights, _input_desc, _device>>
          ELSE /\ _model_format' = model_format
               /\ _torch_weights' = model.params \o model.buffers
               /\ _input_desc' = input_desc
               /\ _device' = device
               /\ pc' = "output_desc"
               /\ UNCHANGED err
    /\ UNCHANGED <<trace, model, codegen_flags, _output_desc, _const_folding, _build_nnf,
                   _codegen_flags, nnf_inputs, nnf_outputs, _inputs, _outputs, nextBuf,
                   outData, feed_data, check_nan, invoked, result, idesc, odesc>>

\* Lines 139-147: self._output_desc, given or inferred by one forward call on a deep copy
SetOutputDesc ==
    /\ pc = "output_desc"
    /\ \E output_desc \in OutputDescChoices :
          IF output_desc.given
          THEN /\ _output_desc' = output_desc.descs
               /\ pc' = "workdir"
               /\ UNCHANGED <<err, trace>>
          ELSE \E out \in ForwardOutcomes :
                  /\ trace' = Append(trace, "forward")
                  /\ IF out.tag = "raise"
                     THEN /\ Fail(Raise("Exception", "model forward raised", <<>>))
                          /\ UNCHANGED _output_desc
                     ELSE /\ _output_desc' = generate_output_desc(
                                  [forward |-> model.forward, out |-> out], _input_desc, _device)
                          /\ pc' = "workdir"
                          /\ UNCHANGED err
    /\ UNCHANGED <<model, codegen_flags, _torch_weights, _input_desc, _device, _const_folding,
                   _build_nnf, _codegen_flags, nnf_inputs, nnf_outputs, _inputs, _outputs,
                   nextBuf, outData, feed_data, check_nan, invoked, result, idesc, odesc, _model_format>>

\* Lines 148-158: the work directory (caller's or temporary), self._const_folding, self._build_nnf
MakeWorkdir ==
    /\ pc = "workdir"
    /\ \E const_folding \in BOOLEAN, build_nnf \in BOOLEAN :
          /\ _const_folding' = const_folding
          /\ _build_nnf' = build_nnf
    /\ trace' = Append(trace, "workdir")
    /\ pc' = "export"
    /\ UNCHANGED <<err, model, codegen_flags, _torch_weights, _input_desc, _output_desc, _device,
                   _codegen_flags, nnf_inputs, nnf_outputs, _inputs, _outputs, nextBuf,
                   outData, feed_data, check_nan, invoked, result, idesc, odesc, _model_format>>

\* Lines 47-68: model.to(device) on the caller's model, then torch.onnx.export on a deep copy
convert_model_to_onnx(ok) ==
    /\ model' = [model EXCEPT !.placement = _device]
    /\ trace' = Append(trace, "export")
    /\ IF ok THEN pc' = "flags" /\ UNCHANGED err
             ELSE Fail(Raise("Exception", "export failed", <<>>))

\* Lines 159-166
Export ==
    /\ pc = "export"
    /\ IF _build_nnf
       THEN \E ok \in BOOLEAN : convert_model_to_onnx(ok)
       ELSE pc' = "flags" /\ UNCHANGED <<err, trace, model>>
    /\ UNCHANGED <<codegen_flags, _torch_weights, _input_desc, _output_desc, _device,
                   _const_folding, _build_nnf, _codegen_flags, nnf_inputs, nnf_outputs,
                   _inputs, _outputs, nextBuf, outData, feed_data, check_nan, invoked,
                   result, idesc, odesc, _model_format>>

DefaultFlags == [k \in {"extern_result_memory"} |-> 1]

\* Mutant of MergeFlags: the incompatibility of training mode and constant
\* folding is not checked
MergeFlags_NoExclusion ==
    /\ pc = "flags"
    /\ \E flags \in FlagChoices :
          /\ codegen_flags' = flags
          /\ _codegen_flags' = Update(DefaultFlags, flags)
    /\ pc' = "rt_dir"
    /\ UNCHANGED <<err, trace, model, _torch_weights, _input_desc, _output_desc, _device,
                   _const_folding, _build_nnf, nnf_inputs, nnf_outputs, _inputs, _outputs,
                   nextBuf, outData, feed_data, check_nan, invoked, result, idesc, odesc, _model_format>>

\* Lines 168-174: defaults merged with the caller's flags, then the incompatibility check
MergeFlags ==
    /\ pc = "flags"
    /\ \E flags \in FlagChoices :
          /\ codegen_flags' = flags
          /\ _codegen_flags' = Update(DefaultFlags, flags)
    /\ IF training_mode(_codegen_flags') /\ _const_folding
       THEN Fail(Raise("Exception", "Const folding and training mode are incompatible", <<>>))
       ELSE pc' = "rt_dir" /\ UNCHANGED err
    /\ UNCHANGED <<trace, model, _torch_weights, _input_desc, _output_desc, _device,
                   _const_folding, _build_nnf, nnf_inputs, nnf_outputs, _inputs, _outputs,
                   nextBuf, outData, feed_data, check_nan, invoked, result, idesc, odesc, _model_format>>
\* Mutant of SelectRtDir: the build pipeline runs whatever build_nnf says
SelectRtDir_AlwaysBuilding ==
    /\ pc = "rt_dir"
    /\ IF In("cuda", _device)
       THEN pc' = "codegen" /\ UNCHANGED err
       ELSE IF In("cpu", _device)
       THEN Fail(Raise("Exception", "CPU not supported yet", <<>>))
       ELSE IF In("rocm", _device)
       THEN Fail(Raise("Exception", "ROCm not supported yet", <<>>))
       ELSE Fail(Raise("Exception", "Unknown device", <<_device>>))
    /\ UNCHANGED <<trace, model, codegen_flags, _torch_weights, _input_desc, _output_desc,
                   _device, _const_folding, _build_nnf, _codegen_flags, nnf_inputs,
                   nnf_outputs, _inputs, _outputs, nextBuf, outData, feed_data, check_nan,
                   invoked, result, idesc, odesc, _model_format>>

\* Lines 177-187: the runtime directory by device, then whether to build
SelectRtDir ==
    /\ pc = "rt_dir"
    /\ IF In("cuda", _device)
       THEN pc' = (IF _build_nnf THEN "codegen" ELSE "load") /\ UNCHANGED err
       ELSE IF In("cpu", _device)
       THEN Fail(Raise("Exception", "CPU not supported yet", <<>>))
       ELSE IF In("rocm", _device)
       THEN Fail(Raise("Exception", "ROCm not supported yet", <<>>))
       ELSE Fail(Raise("Exception", "Unknown device", <<_device>>))
    /\ UNCHANGED <<trace, model, codegen_flags, _torch_weights, _input_desc, _output_desc,
                   _device, _const_folding, _build_nnf, _codegen_flags, nnf_inputs,
                   nnf_outputs, _inputs, _outputs, nextBuf, outData, feed_data, check_nan,
                   invoked, result, idesc, odesc, _model_format>>
\* Mutant of ExternalStep: a failed command is run again
ExternalStep_Retrying(at, name, next) ==
    /\ pc = at
    /\ trace' = Append(trace, name)
    /\ \E ok \in BOOLEAN : pc' = (IF ok THEN next ELSE at)
    /\ UNCHANGED <<err, model, codegen_flags, _torch_weights, _input_desc, _output_desc, _device,
                   _const_folding, _build_nnf, _codegen_flags, nnf_inputs, nnf_outputs,
                   _inputs, _outputs, nextBuf, outData, feed_data, check_nan, invoked,
                   result, idesc, odesc, _model_format>>

\* One external command of the build pipeline: fatal on failure, no retry
ExternalStep(at, name, next) ==
    /\ pc = at
    /\ trace' = Append(trace, name)
    /\ \E ok \in BOOLEAN :
          IF ok THEN pc' = next /\ UNCHANGED err
                ELSE Fail(Raise("Exception", name \o " failed", <<>>))
    /\ UNCHANGED <<model, codegen_flags, _torch_weights, _input_desc, _output_desc, _device,
                   _const_folding, _build_nnf, _codegen_flags, nnf_inputs, nnf_outputs,
                   _inputs, _outputs, nextBuf, outData, feed_data, check_nan, invoked,
                   result, idesc, odesc, _model_format>>

\* Lines 188-192 and 71-75
Codegen == ExternalStep("codegen", "codegen", "patch")

\* Lines 193 and 78-82
Patch == ExternalStep("patch", "patch", "build")

\* Lines 194 and 85-91
Build == ExternalStep("build", "build", "load")

\* Lines 196-198: Executor(rt_dir) and get_inputs(). The declared outputs, read
\* at line 199 and first used at line 226, are drawn where they are used.
LoadExecutor ==
    /\ pc = "load"
    /\ trace' = Append(trace, "load")
    /\ \E ok \in BOOLEAN :
          IF ok
          THEN /\ \E ins \in ArtifactInputs : nnf_inputs' = ins
               /\ pc' = "bind_inputs"
               /\ UNCHANGED err
          ELSE /\ Fail(Raise("Exception", "load failed", <<>>))
               /\ UNCHANGED nnf_inputs
    /\ UNCHANGED <<nnf_outputs, model, codegen_flags, _torch_weights, _input_desc, _output_desc, _device,
                   _const_folding, _build_nnf, _codegen_flags, _inputs, _outputs, nextBuf,
                   outData, feed_data, check_nan, invoked, result, idesc, odesc, _model_format>>

----------------------------------------------------------------------------
(* PTSession._create_executor: binding validation *)

WeightNames(weights) == {weights[i].name : i \in 1..Len(weights)}

\* Mutant of add_weights: a weight silently replaces a caller input of its name
RECURSIVE add_weights_overwriting(_, _)
add_weights_overwriting(weights, real_inputs) ==
    IF weights = <<>> THEN [err |-> NoErr, real_inputs |-> real_inputs]
    ELSE LET name == Head(weights).name
             tensor == Head(weights).tensor
         IN  add_weights_overwriting(Tail(weights),
                                     Put(real_inputs, name, tensor2desc(tensor, name)))

\* Lines 202-205: in training mode every weight becomes a resolved input;
\* a weight named like an entry already present fails the assertion.
RECURSIVE add_weights(_, _)
add_weights(weights, real_inputs) ==
    IF weights = <<>> THEN [err |-> NoErr, real_inputs |-> real_inputs]
    ELSE LET name == Head(weights).name
             tensor == Head(weights).tensor
         IN  IF name \in DOMAIN real_inputs
             THEN [err |-> Raise("AssertionError", "Duplicate inputs", <<name>>),
                   real_inputs |-> real_inputs]
             ELSE add_weights(Tail(weights), Put(real_inputs, name, tensor2desc(tensor, name)))

\* Mutant of resolve_inputs: the weights are resolved inputs in every mode
resolve_inputs_any_mode(input_desc, weights, flags) ==
    add_weights(weights, ByName(input_desc))

\* Lines 200-205
resolve_inputs(input_desc, weights, flags) ==
    IF training_mode(flags)
    THEN add_weights(weights, ByName(input_desc))
    ELSE [err |-> NoErr, real_inputs |-> ByName(input_desc)]

\* Mutant of bind_inputs: the dtype of an artifact input is not compared
RECURSIVE bind_inputs_no_dtype(_, _, _, _)
bind_inputs_no_dtype(descs, real_inputs, weights, acc) ==
    IF descs = <<>> THEN [err |-> NoErr, inputs |-> acc]
    ELSE LET desc == Head(descs)
         IN  IF desc.name \notin DOMAIN real_inputs
             THEN [err |-> Raise("AssertionError", "nnf requires input, absent from session input desc",
                                 <<desc.name>>),
                   inputs |-> acc]
             ELSE IF desc.shape # real_inputs[desc.name].shape
             THEN [err |-> Raise("AssertionError", "nnf requires input with shape",
                                 <<desc.name, desc.shape, real_inputs[desc.name].shape>>),
                   inputs |-> acc]
             ELSE bind_inputs_no_dtype(Tail(descs), real_inputs, weights,
                              Put(acc, desc.name,
                                  IF desc.name \in WeightNames(weights)
                                  THEN cast_pytorch_tensor(WeightRef(desc.name))
                                  ELSE NoneVal))
\* Two shapes of one rank that agree wherever neither holds the dynamic marker
same_up_to_dynamic(a, b) ==
    /\ Len(a) = Len(b)
    /\ \A k \in 1..Len(a) : a[k] = b[k] \/ a[k] = Dyn \/ b[k] = Dyn

\* Mutant of bind_inputs: a dynamic dimension matches any size
RECURSIVE bind_inputs_dynamic_matches(_, _, _, _)
bind_inputs_dynamic_matches(descs, real_inputs, weights, acc) ==
    IF descs = <<>> THEN [err |-> NoErr, inputs |-> acc]
    ELSE LET desc == Head(descs)
         IN  IF desc.name \notin DOMAIN real_inputs
             THEN [err |-> Raise("AssertionError", "nnf requires input, absent from session input desc",
                                 <<desc.name>>),
                   inputs |-> acc]
             ELSE IF ~same_up_to_dynamic(desc.shape, real_inputs[desc.name].shape)
             THEN [err |-> Raise("AssertionError", "nnf requires input with shape",
                                 <<desc.name, desc.shape, real_inputs[desc.name].shape>>),
                   inputs |-> acc]
             ELSE IF desc.dtype # real_inputs[desc.name].dtype
             THEN [err |-> Raise("AssertionError", "nnf requires input with type",
                                 <<desc.name, desc.dtype, real_inputs[desc.name].dtype>>),
                   inputs |-> acc]
             ELSE bind_inputs_dynamic_matches(Tail(descs), real_inputs, weights,
                              Put(acc, desc.name,
                                  IF desc.name \in WeightNames(weights)
                                  THEN cast_pytorch_tensor(WeightRef(desc.name))
                                  ELSE NoneVal))

\* Lines 208-221: each artifact input is checked against its resolved descriptor
\* and bound to the live weight of that name, or to None.
RECURSIVE bind_inputs(_, _, _, _)
bind_inputs(descs, real_inputs, weights, acc) ==
    IF descs = <<>> THEN [err |-> NoErr, inputs |-> acc]
    ELSE LET desc == Head(descs)
         IN  IF desc.name \notin DOMAIN real_inputs
             THEN [err |-> Raise("AssertionError", "nnf requires input, absent from session input desc",
                                 <<desc.name>>),
                   inputs |-> acc]
             ELSE IF desc.shape # real_inputs[desc.name].shape
             THEN [err |-> Raise("AssertionError", "nnf requires input with shape",
                                 <<desc.name, desc.shape, real_inputs[desc.name].shape>>),
                   inputs |-> acc]
             ELSE IF desc.dtype # real_inputs[desc.name].dtype
             THEN [err |-> Raise("AssertionError", "nnf requires input with type",
                                 <<desc.name, desc.dtype, real_inputs[desc.name].dtype>>),
                   inputs |-> acc]
             ELSE bind_inputs(Tail(descs), real_inputs, weights,
                              Put(acc, desc.name,
                                  IF desc.name \in WeightNames(weights)
                                  THEN cast_pytorch_tensor(WeightRef(desc.name))
                                  ELSE NoneVal))
\* Mutant of BindInputs: every slot starts unbound, a weight's too
BindInputs_WeightsUnbound ==
    /\ pc = "bind_inputs"
    /\ LET resolved == resolve_inputs(_input_desc, _torch_weights, _codegen_flags)
           bound == bind_inputs(nnf_inputs, resolved.real_inputs, <<>>, EmptyDict)
       IN  IF resolved.err # NoErr
           THEN Fail(resolved.err) /\ UNCHANGED _inputs
           ELSE /\ _inputs' = bound.inputs
                /\ IF bound.err # NoErr
                   THEN Fail(bound.err)
                   ELSE pc' = "extern_result_memory" /\ UNCHANGED err
    /\ UNCHANGED <<trace, model, codegen_flags, _torch_weights, _input_desc, _output_desc,
                   _device, _const_folding, _build_nnf, _codegen_flags, nnf_inputs,
                   nnf_outputs, _outputs, nextBuf, outData, feed_data, check_nan, invoked,
                   result, idesc, odesc, _model_format>>

\* Lines 200-221
BindInputs ==
    /\ pc = "bind_inputs"
    /\ LET resolved == resolve_inputs(_input_desc, _torch_weights, _codegen_flags)
           bound == bind_inputs(nnf_inputs, resolved.real_inputs, _torch_weights, EmptyDict)
       IN  IF resolved.err # NoErr
           THEN Fail(resolved.err) /\ UNCHANGED _inputs
           ELSE /\ _inputs' = bound.inputs
                /\ IF bound.err # NoErr
                   THEN Fail(bound.err)
                   ELSE pc' = "extern_result_memory" /\ UNCHANGED err
    /\ UNCHANGED <<trace, model, codegen_flags, _torch_weights, _input_desc, _output_desc,
                   _device, _const_folding, _build_nnf, _codegen_flags, nnf_inputs,
                   nnf_outputs, _outputs, nextBuf, outData, feed_data, check_nan, invoked,
                   result, idesc, odesc, _model_format>>

\* Mutant of CheckExternResultMemory: the flag is never inspected
CheckExternResultMemory_Unchecked ==
    /\ pc = "extern_result_memory"
    /\ pc' = "bind_outputs"
    /\ UNCHANGED <<err, trace, model, codegen_flags, _torch_weights, _input_desc, _output_desc,
                   _device, _const_folding, _build_nnf, _codegen_flags, nnf_inputs,
                   nnf_outputs, _inputs, _outputs, nextBuf, outData, feed_data, check_nan,
                   invoked, result, idesc, odesc, _model_format>>

\* Lines 223-224
CheckExternResultMemory ==
    /\ pc = "extern_result_memory"
    /\ IF ~Truthy(Get(_codegen_flags, "extern_result_memory", 0))
       THEN Fail(Raise("Exception", "Please add extern_result_memory to codegen flags", <<>>))
       ELSE pc' = "bind_outputs" /\ UNCHANGED err
    /\ UNCHANGED <<trace, model, codegen_flags, _torch_weights, _input_desc, _output_desc,
                   _device, _const_folding, _build_nnf, _codegen_flags, nnf_inputs,
                   nnf_outputs, _inputs, _outputs, nextBuf, outData, feed_data, check_nan,
                   invoked, result, idesc, odesc, _model_format>>

\* The message of a failed output assertion (lines 233 and 236) reads
\* real_inputs[desc.name].shape: a KeyError when the name is no resolved input.
output_mismatch(what, desc, real_inputs) ==
    IF desc.name \in DOMAIN real_inputs
    THEN Raise("AssertionError", what, <<desc.name, desc.shape, real_inputs[desc.name].shape>>)
    ELSE Raise("KeyError", what, <<desc.name>>)

\* Mutant of bind_outputs: an artifact output must be a caller output in every mode
RECURSIVE bind_outputs_strict(_, _, _, _, _, _)
bind_outputs_strict(descs, real_inputs, real_outputs, flags, acc, next) ==
    IF descs = <<>> THEN [err |-> NoErr, outputs |-> acc, next |-> next]
    ELSE LET desc == Head(descs)
         IN  IF desc.name \notin DOMAIN real_outputs
             THEN [err |-> Raise("AssertionError", "nnf requires output, absent from session output desc",
                                 <<desc.name>>),
                   outputs |-> acc, next |-> next]
             ELSE IF desc.shape # real_outputs[desc.name].shape
             THEN [err |-> output_mismatch("nnf requires output with shape", desc, real_inputs),
                   outputs |-> acc, next |-> next]
             ELSE IF desc.dtype # real_outputs[desc.name].dtype
             THEN [err |-> output_mismatch("nnf requires output with type", desc, real_inputs),
                   outputs |-> acc, next |-> next]
             ELSE bind_outputs_strict(Tail(descs), real_inputs, real_outputs, flags,
                               Put(acc, desc.name, cast_pytorch_tensor(OutRef(next))), next + 1)

\* Lines 226-240: each artifact output is checked against the caller's output
\* of that name, if any, and gets a new zero-filled buffer.
RECURSIVE bind_outputs(_, _, _, _, _, _)
bind_outputs(descs, real_inputs, real_outputs, flags, acc, next) ==
    IF descs = <<>> THEN [err |-> NoErr, outputs |-> acc, next |-> next]
    ELSE LET desc == Head(descs)
         IN  IF ~(training_mode(flags) \/ desc.name \in DOMAIN real_outputs)
             THEN [err |-> Raise("AssertionError", "nnf requires output, absent from session output desc",
                                 <<desc.name>>),
                   outputs |-> acc, next |-> next]
             ELSE IF desc.name \in DOMAIN real_outputs
                     /\ desc.shape # real_outputs[desc.name].shape
             THEN [err |-> output_mismatch("nnf requires output with shape", desc, real_inputs),
                   outputs |-> acc, next |-> next]
             ELSE IF desc.name \in DOMAIN real_outputs
                     /\ desc.dtype # real_outputs[desc.name].dtype
             THEN [err |-> output_mismatch("nnf requires output with type", desc, real_inputs),
                   outputs |-> acc, next |-> next]
             ELSE bind_outputs(Tail(descs), real_inputs, real_outputs, flags,
                               Put(acc, desc.name, cast_pytorch_tensor(OutRef(next))), next + 1)

Zeros == [fill |-> "zeros", from |-> EmptyDict]

BufferIds(outputs) == {outputs[n].n : n \in DOMAIN outputs}

\* Lines 199 and 226-240; the constructor then returns the session
BindOutputs ==
    /\ pc = "bind_outputs"
    /\ \E outs \in ArtifactOutputs : nnf_outputs' = outs
    /\ LET resolved == resolve_inputs(_input_desc, _torch_weights, _codegen_flags)
           bound == bind_outputs(nnf_outputs', resolved.real_inputs, ByName(_output_desc),
                                 _codegen_flags, EmptyDict, nextBuf)
       IN  /\ _outputs' = bound.outputs
           /\ nextBuf' = bound.next
           /\ outData' = [b \in BufferIds(bound.outputs) |-> Zeros]
           /\ IF bound.err # NoErr
              THEN Fail(bound.err)
              ELSE pc' = "Ready" /\ UNCHANGED err
    /\ UNCHANGED <<trace, model, codegen_flags, _torch_weights, _input_desc, _output_desc,
                   _device, _const_folding, _build_nnf, _codegen_flags, nnf_inputs,
                   _inputs, feed_data, check_nan, invoked, result, idesc, odesc, _model_format>>

----------------------------------------------------------------------------
(* PTSession.run_by_nnf *)
\* Mutant of feed_inputs: every feed entry is stored, bound name or not
feed_inputs_adding(inputs, feed) ==
    [name \in DOMAIN inputs \cup DOMAIN feed |->
        IF name \in DOMAIN feed THEN cast_pytorch_tensor(feed[name]) ELSE inputs[name]]

\* Lines 261-264: a feed entry replaces the slot of a bound name, and only that
feed_inputs(inputs, feed) ==
    [name \in DOMAIN inputs |->
        IF name \in DOMAIN feed THEN cast_pytorch_tensor(feed[name]) ELSE inputs[name]]
\* Mutant of RunFeed: the bindings are rebuilt from the feed alone
RunFeed_Rebinding ==
    /\ pc = "Ready"
    /\ \E feed \in Feeds :
          /\ feed_data' = feed
          /\ _inputs' = feed_inputs([name \in DOMAIN _inputs |-> NoneVal], feed)
    /\ check_nan' = FALSE
    /\ invoked' = 0
    /\ result' = NoErr
    /\ pc' = "invoke"
    /\ UNCHANGED <<err, trace, model, codegen_flags, _torch_weights, _input_desc, _output_desc,
                   _device, _const_folding, _build_nnf, _codegen_flags, nnf_inputs,
                   nnf_outputs, _outputs, nextBuf, outData, idesc, odesc, _model_format>>

\* Lines 251-264: the call starts and the feed is applied; check_nan, not read
\* before line 266, is drawn there
RunFeed ==
    /\ pc = "Ready"
    /\ \E feed \in Feeds :
          /\ feed_data' = feed
          /\ _inputs' = feed_inputs(_inputs, feed)
    /\ check_nan' = FALSE
    /\ invoked' = 0
    /\ result' = NoErr
    /\ pc' = "invoke"
    /\ UNCHANGED <<err, trace, model, codegen_flags, _torch_weights, _input_desc, _output_desc,
                   _device, _const_folding, _build_nnf, _codegen_flags, nnf_inputs,
                   nnf_outputs, _outputs, nextBuf, outData, idesc, odesc, _model_format>>

\* What the artifact leaves in every output buffer: a value of the bindings it ran on
ArtifactResult(inputs) == [fill |-> "artifact", from |-> inputs]

\* Mutant of RunInvoke: the call allocates new output buffers for the result
RunInvoke_Reallocating ==
    /\ pc = "invoke"
    /\ LET names == DOMAIN _outputs
           fresh == [name \in names |->
                        OutRef(nextBuf + Cardinality({m \in names : _outputs[m].n < _outputs[name].n}))]
       IN  /\ _outputs' = fresh
           /\ nextBuf' = nextBuf + Cardinality(names)
           /\ outData' = [b \in BufferIds(fresh) |-> ArtifactResult(_inputs)]
    /\ invoked' = invoked + 1
    /\ pc' = "scan"
    /\ UNCHANGED <<err, trace, model, codegen_flags, _torch_weights, _input_desc, _output_desc,
                   _device, _const_folding, _build_nnf, _codegen_flags, nnf_inputs,
                   nnf_outputs, _inputs, feed_data, check_nan, result, idesc, odesc, _model_format>>

\* Line 265: self._executor(self._inputs, self._outputs) writes the output buffers in place
RunInvoke ==
    /\ pc = "invoke"
    /\ outData' = [b \in BufferIds(_outputs) |-> ArtifactResult(_inputs)]
    /\ invoked' = invoked + 1
    /\ pc' = "scan"
    /\ UNCHANGED <<err, trace, model, codegen_flags, _torch_weights, _input_desc, _output_desc,
                   _device, _const_folding, _build_nnf, _codegen_flags, nnf_inputs,
                   nnf_outputs, _inputs, _outputs, nextBuf, feed_data, check_nan, result,
                   idesc, odesc, _model_format>>

\* Lines 272-280: the names logged, i.e. the weights holding NaN or Inf
nan_weights(weights, m) == {name \in WeightNames(weights) : name \in m.nan}

is_weights_nan(weights, m) == nan_weights(weights, m) # {}

\* Lines 268-270: [self._outputs[desc.name].reference for desc in self._output_desc]
output_list(outputs, output_desc) ==
    IF \E i \in 1..Len(output_desc) : output_desc[i].name \notin DOMAIN outputs
    THEN LET i == CHOOSE j \in 1..Len(output_desc) :
                     /\ output_desc[j].name \notin DOMAIN outputs
                     /\ \A k \in 1..(j - 1) : output_desc[k].name \in DOMAIN outputs
         IN  Raise("KeyError", "self._outputs", <<output_desc[i].name>>)
    ELSE [type |-> "return", what |-> "",
          args |-> [i \in 1..Len(output_desc) |-> outputs[output_desc[i].name]]]

\* Lines 266-270: check_nan is read; the optional weight scan, then the outputs
\* in contract order
RunReturn ==
    /\ pc = "scan"
    /\ \E nan_policy \in BOOLEAN :
          /\ check_nan' = nan_policy
          /\ result' = IF nan_policy /\ is_weights_nan(_torch_weights, model)
                       THEN Raise("Exception", "Nan found after execution",
                                  <<nan_weights(_torch_weights, model)>>)
                       ELSE output_list(_outputs, _output_desc)
    /\ feed_data' = EmptyDict
    /\ pc' = "Ready"
    /\ UNCHANGED <<err, trace, model, codegen_flags, _torch_weights, _input_desc, _output_desc,
                   _device, _const_folding, _build_nnf, _codegen_flags, nnf_inputs,
                   nnf_outputs, _inputs, _outputs, nextBuf, outData, invoked,
                   idesc, odesc, _model_format>>

----------------------------------------------------------------------------

Next ==
    \/ InitFields
    \/ SetOutputDesc
    \/ MakeWorkdir
    \/ Export
    \/ MergeFlags
    \/ SelectRtDir
    \/ Codegen
    \/ Patch
    \/ Build
    \/ LoadExecutor
    \/ BindInputs
    \/ CheckExternResultMemory
    \/ BindOutputs
    \/ RunFeed
    \/ RunInvoke
    \/ RunReturn

Spec == Init /\ [][Next]_vars

----------------------------------------------------------------------------
(* Output-contract inference on an identity model, as a specification of its own *)

Dims == {Dyn} \cup (1..MaxDim)

AllShapes == UNION {[1..r -> Dims] : r \in 0..MaxRank}

\* dtype and num_classes of a descriptor; num_classes marks a categorical input
InferKinds == {<<"float32", 0>>, <<"int64", 0>>, <<"int64", 3>>}

\* The i-th descriptor of a valid contract: names are distinct
InferDesc(i, shape, kind) ==
    [name |-> "in_" \o ToString(i), shape |-> shape, dtype |-> kind[1], num_classes |-> kind[2]]

\* The valid input contracts of at most MaxInputs descriptors
IsInputContract(c) ==
    \E n \in 0..MaxInputs :
        \E shapes \in [1..n -> AllShapes], kinds \in [1..n -> InferKinds] :
            c = [i \in 1..n |-> InferDesc(i, shapes[i], kinds[i])]

IdentityModel ==
    [params |-> <<>>, buffers |-> <<>>, placement |-> "cpu", nan |-> {}, forward |-> "identity"]

InitInfer ==
    /\ pc = "infer"
    /\ err = NoErr
    /\ trace = <<>>
    /\ model = IdentityModel
    /\ codegen_flags = EmptyDict
    /\ _torch_weights = <<>>
    /\ _input_desc = <<>>
    /\ _output_desc = <<>>
    /\ _device = ""
    /\ _const_folding = FALSE
    /\ _build_nnf = FALSE
    /\ _codegen_flags = EmptyDict
    /\ nnf_inputs = <<>>
    /\ nnf_outputs = <<>>
    /\ _inputs = EmptyDict
    /\ _outputs = EmptyDict
    /\ nextBuf = 1
    /\ outData = EmptyDict
    /\ feed_data = EmptyDict
    /\ check_nan = FALSE
    /\ invoked = 0
    /\ result = NoErr
    /\ IsInputContract(idesc)
    /\ odesc = <<>>
    /\ _model_format = ""

\* Lines 38-44 applied to the identity model
Infer ==
    /\ pc = "infer"
    /\ odesc' = generate_output_desc([forward |-> model.forward, out |-> <<>>], idesc, "cpu")
    /\ pc' = "inferred"
    /\ UNCHANGED <<err, trace, model, codegen_flags, _torch_weights, _input_desc, _output_desc,
                   _device, _const_folding, _build_nnf, _codegen_flags, nnf_inputs,
                   nnf_outputs, _inputs, _outputs, nextBuf, outData, feed_data, check_nan,
                   invoked, result, idesc,
                   _model_format>>

NextInfer == Infer

SpecInfer == InitInfer /\ [][NextInfer]_vars

----------------------------------------------------------------------------
(* Vocabulary of the properties *)

Range(seq) == {seq[i] : i \in 1..Len(seq)}

\* The constructor returned a session (Ready, or inside a run_by_nnf call)
Constructed == pc \in {"Ready", "invoke", "scan"}

\* The constructor has read the codegen_flags argument
FlagsRead == _codegen_flags # EmptyDict

ExternalSteps == {"export", "codegen", "patch", "build", "load"}

ErmError == "Please add extern_result_memory to codegen flags"

IncompatibleError == "Const folding and training mode are incompatible"

\* extern_result_memory as the caller passed it
ErmAbsent == "extern_result_memory" \notin DOMAIN codegen_flags
ErmFalsy == ~ErmAbsent /\ ~Truthy(codegen_flags["extern_result_memory"])

\* The descriptors artifact inputs resolve to (caller inputs, plus weights in training mode)
RealInputs == resolve_inputs(_input_desc, _torch_weights, _codegen_flags).real_inputs

RealOutputs == ByName(_output_desc)

\* i precedes j in the constructor's trace of external steps
Before(a, b) ==
    \E i, j \in 1..Len(trace) : i < j /\ trace[i] = a /\ trace[j] = b

----------------------------------------------------------------------------
(* C1 *)

\* C1 (as stated): with building enabled, a caller whose codegen flags lack
\* extern_result_memory or hold it falsy gets a failed construction, and no
\* external process (export, codegen, patch, build, artifact load) has been
\* invoked by then.
C1_FailsBeforeAnyExternalProcess ==
    (_build_nnf /\ FlagsRead /\ (ErmAbsent \/ ErmFalsy))
        => (pc = "Failed" /\ Range(trace) \cap ExternalSteps = {})

\* C1 (amended): a caller flag extern_result_memory that is present and falsy
\* never yields a constructed session; its configuration error is raised only
\* for such a flag and only after the artifact was loaded (and, with building
\* enabled, after export, codegen, patch and build, in that order) and the
\* inputs were bound; an absent flag is replaced by the default 1 and never
\* raises this error.
C1_FalsyFlagFailsAfterLoad ==
    /\ (FlagsRead /\ ErmFalsy) => ~Constructed
    /\ (FlagsRead /\ ErmAbsent) => _codegen_flags["extern_result_memory"] = 1
    /\ (pc = "Failed" /\ err.what = ErmError) =>
          /\ ErmFalsy
          /\ "load" \in Range(trace)
          /\ DOMAIN _inputs = Names(nnf_inputs)
          /\ _build_nnf => /\ Before("export", "codegen")
                           /\ Before("codegen", "patch")
                           /\ Before("patch", "build")
                           /\ Before("build", "load")

\* C1 witness: the configuration error raised with building enabled, after the
\* whole pipeline ran
C1_Witness ==
    /\ pc = "Failed"
    /\ err.what = ErmError
    /\ _build_nnf
    /\ Range(trace) \cap ExternalSteps = ExternalSteps

----------------------------------------------------------------------------
(* C2 *)

\* C2 (as stated): training mode together with constant folding ends the
\* construction with the mutual-exclusion error and the exporter was never
\* invoked.
C2_FailsBeforeExport ==
    (FlagsRead /\ training_mode(codegen_flags) /\ _const_folding)
        => (pc = "Failed" /\ err.what = IncompatibleError /\ "export" \notin Range(trace))

\* C2 (amended): training mode together with constant folding ends the
\* construction with the mutual-exclusion error before codegen, patch, build
\* and artifact load; with building enabled the exporter has already been
\* invoked when the error is raised, with building disabled it never is.
C2_FailsAfterExport ==
    (FlagsRead /\ training_mode(codegen_flags) /\ _const_folding)
        => /\ pc = "Failed"
           /\ err.what = IncompatibleError
           /\ Range(trace) \cap {"codegen", "patch", "build", "load"} = {}
           /\ ("export" \in Range(trace)) <=> _build_nnf

\* C2 witness: the mutual-exclusion error raised after the exporter ran
C2_Witness ==
    /\ pc = "Failed"
    /\ err.what = IncompatibleError
    /\ "export" \in Range(trace)

----------------------------------------------------------------------------
(* C3 *)

\* Names an artifact input may carry: caller inputs, and weights in training mode only
AllowedInputNames ==
    Names(_input_desc) \cup
        (IF training_mode(_codegen_flags) THEN WeightNames(_torch_weights) ELSE {})

\* C3: once the artifact's inputs have been validated, an artifact input whose
\* name is neither a caller input nor (in training mode only) a weight means
\* the construction failed; no constructed session has such an input.
C3_UnknownInputRejected ==
    (pc # "bind_inputs" /\ ~(Names(nnf_inputs) \subseteq AllowedInputNames))
        => pc = "Failed"

\* C3 witness: training mode off, and the rejected artifact input is named
\* like a weight of the model
C3_Witness ==
    /\ pc = "Failed"
    /\ err.what = "nnf requires input, absent from session input desc"
    /\ ~training_mode(_codegen_flags)
    /\ err.args[1] \in WeightNames(_torch_weights)

----------------------------------------------------------------------------
(* C4 *)

\* An artifact input with a resolved descriptor that differs from it in shape or dtype
InputMismatch(desc) ==
    LET real_inputs == RealInputs
    IN  /\ desc.name \in DOMAIN real_inputs
        /\ \/ desc.shape # real_inputs[desc.name].shape
           \/ desc.dtype # real_inputs[desc.name].dtype

\* C4: once the artifact's inputs have been validated, an artifact input whose
\* shape or dtype differs from its resolved caller or weight descriptor (the
\* other attribute matching or not) means the construction failed with an
\* assertion error; a constructed session has only exactly matching inputs.
C4_InputMismatchRejected ==
    (pc # "bind_inputs" /\ \E i \in 1..Len(nnf_inputs) : InputMismatch(nnf_inputs[i]))
        => (pc = "Failed" /\ err.type = "AssertionError")

\* C4 witness: a shape mismatch reported for an input whose dtype matches
C4_Witness ==
    /\ pc = "Failed"
    /\ err.what = "nnf requires input with shape"
    /\ \E i \in 1..Len(nnf_inputs) :
          /\ nnf_inputs[i].name = err.args[1]
          /\ nnf_inputs[i].dtype = RealInputs[nnf_inputs[i].name].dtype
          /\ nnf_inputs[i].shape # RealInputs[nnf_inputs[i].name].shape

----------------------------------------------------------------------------
(* C5 *)

\* The handles a call returns are the buffers bound to the caller's output names
ReturnsBoundBuffers ==
    result.type = "return" =>
        \A i \in 1..Len(result.args) : result.args[i] = _outputs[_output_desc[i].name]

\* C5: from the moment the session is constructed, no step of any run_by_nnf
\* call rebinds an output name or allocates a buffer (only buffer contents
\* change), and the handles a call returns are those bound buffers, so two
\* calls return identical handles.
C5_BufferStable ==
    /\ [][Constructed => (_outputs' = _outputs /\ nextBuf' = nextBuf)]_vars
    /\ [](Constructed => ReturnsBoundBuffers)

\* C5 witness: a second call has been fed another tensor for x than the one
\* the previous call ran on, whose result still sits in an output buffer
C5_Witness ==
    /\ pc = "invoke"
    /\ "x" \in DOMAIN _inputs
    /\ _inputs["x"] = FeedRef(2)
    /\ \E b \in DOMAIN outData :
          /\ outData[b].fill = "artifact"
          /\ outData[b].from["x"] = FeedRef(1)

----------------------------------------------------------------------------
(* C6 *)

\* C6 (as stated): every constructed session has a bound buffer for every
\* caller-contract output name, and a call that gets past the weight scan
\* returns exactly one buffer per caller output descriptor, in declared order.
C6_ReturnsOutputsInContractOrder ==
    Constructed =>
        /\ Names(_output_desc) \subseteq DOMAIN _outputs
        /\ result.type \notin {"none", "Exception"} =>
              /\ result.type = "return"
              /\ Len(result.args) = Len(_output_desc)
              /\ \A i \in 1..Len(_output_desc) :
                    result.args[i] = _outputs[_output_desc[i].name]

----------------------------------------------------------------------------
(* C7 *)

WeightCollision == WeightNames(_torch_weights) \cap Names(_input_desc) # {}

\* C7: in training mode, once the resolved inputs have been computed, a weight
\* (parameter or buffer) named like a caller input means the construction
\* failed, whatever the shapes and dtypes and whatever the artifact declares.
C7_WeightCollisionRejected ==
    (FlagsRead /\ training_mode(_codegen_flags) /\ WeightCollision
        /\ pc \notin {"rt_dir", "codegen", "patch", "build", "load", "bind_inputs"})
        => pc = "Failed"

\* C7 witness: the duplicate-input failure for a name the artifact does not
\* declare, the weight's descriptor differing from the caller's
C7_Witness ==
    /\ pc = "Failed"
    /\ err.what = "Duplicate inputs"
    /\ err.args[1] \notin Names(nnf_inputs)
    /\ \E i \in 1..Len(_torch_weights), j \in 1..Len(_input_desc) :
          /\ _torch_weights[i].name = err.args[1]
          /\ _input_desc[j].name = err.args[1]
          /\ tensor2desc(_torch_weights[i].tensor, err.args[1]) # _input_desc[j]

----------------------------------------------------------------------------
(* C8 *)

NanError == "Nan found after execution"

\* C8 (as stated): a finished call on a session some weight of which holds NaN
\* or Inf raised the NaN error if the policy was enabled, and then the artifact
\* had been invoked exactly once, on the bindings the feed left, and the output
\* buffers hold its result; with the policy disabled the call returned normally.
C8_RaisesAfterInvocation ==
    (pc = "Ready" /\ result # NoErr /\ is_weights_nan(_torch_weights, model)) =>
        IF check_nan
        THEN /\ result.type = "Exception" /\ result.what = NanError
             /\ invoked = 1
             /\ \A b \in BufferIds(_outputs) : outData[b] = ArtifactResult(_inputs)
        ELSE result.type = "return"

----------------------------------------------------------------------------
(* C10 *)

\* An artifact output the caller's contract does not name
ExtraOutput(desc) == desc.name \notin DOMAIN RealOutputs

\* An artifact output that differs from the caller's descriptor of the same name
OutputMismatch(desc) ==
    /\ desc.name \in DOMAIN RealOutputs
    /\ \/ desc.shape # RealOutputs[desc.name].shape
       \/ desc.dtype # RealOutputs[desc.name].dtype

\* C10: once the artifact's outputs have been validated, the construction has
\* failed exactly when some artifact output differs in shape or dtype from the
\* caller's output of the same name, or, with training mode off, is not named
\* in the caller's outputs; with training mode on an extra output is accepted.
C10_OutputValidation ==
    nnf_outputs # <<>> =>
        (pc = "Failed" <=>
            \E i \in 1..Len(nnf_outputs) :
                \/ OutputMismatch(nnf_outputs[i])
                \/ ~training_mode(_codegen_flags) /\ ExtraOutput(nnf_outputs[i]))

\* C10 witness: a training-mode session constructed with an artifact output the
\* caller's contract does not name
C10_Witness ==
    /\ Constructed
    /\ training_mode(_codegen_flags)
    /\ \E i \in 1..Len(nnf_outputs) :
          /\ ExtraOutput(nnf_outputs[i])
          /\ nnf_outputs[i].name \in DOMAIN _outputs

----------------------------------------------------------------------------
(* C9 *)

\* C9 (as stated): the inferred outputs of an identity model are named
\* output_0, output_1, ... by position and have the shapes and dtypes of the
\* corresponding inputs.
C9_IdentityPreservesContract ==
    pc = "inferred" =>
        /\ Len(odesc) = Len(idesc)
        /\ \A i \in 1..Len(idesc) :
              /\ odesc[i].name = "output_" \o ToString(i - 1)
              /\ odesc[i].shape = idesc[i].shape
              /\ odesc[i].dtype = idesc[i].dtype

\* C9 (amended): as stated, except that every dynamic-size dimension of an
\* input comes back as the concrete size 1 (shapes without dynamic dimensions,
\* rank 0 included, come back unchanged).
C9_IdentityPreservesConcreteDims ==
    pc = "inferred" =>
        /\ Len(odesc) = Len(idesc)
        /\ \A i \in 1..Len(idesc) :
              /\ odesc[i].name = "output_" \o ToString(i - 1)
              /\ odesc[i].dtype = idesc[i].dtype
              /\ Len(odesc[i].shape) = Len(idesc[i].shape)
              /\ \A k \in 1..Len(idesc[i].shape) :
                    odesc[i].shape[k] =
                        (IF idesc[i].shape[k] = Dyn THEN 1 ELSE idesc[i].shape[k])

\* C9 witness: inference done on a contract with a rank-0 input and an input
\* holding a dynamic dimension
C9_Witness ==
    /\ pc = "inferred"
    /\ \E i \in 1..Len(idesc) : idesc[i].shape = <<>>
    /\ \E i \in 1..Len(idesc) : Dyn \in Range(idesc[i].shape)

----------------------------------------------------------------------------
(* C11: caller inputs the artifact does not declare *)

\* Caller inputs the artifact does not declare
DroppedInputs == Names(_input_desc) \ Names(nnf_inputs)

\* The errors of the input loop, lines 200-221
InputLoopErrors ==
    {"Duplicate inputs", "nnf requires input, absent from session input desc",
     "nnf requires input with shape", "nnf requires input with type"}

\* C11: a caller input the artifact does not declare is no error. The input loop
\* fails only for a weight collision, an unresolved artifact input or a mismatch,
\* never for an undeclared caller input; a constructed session has a slot for
\* exactly the artifact's declared inputs, so none for a dropped input; and a feed
\* that names no bound slot leaves every binding as it was.
C11_DroppedInputIgnored ==
    /\ [](/\ (pc = "Failed" /\ err.what \in InputLoopErrors) =>
                \/ training_mode(_codegen_flags) /\ WeightCollision
                \/ Names(nnf_inputs) \ AllowedInputNames # {}
                \/ \E i \in 1..Len(nnf_inputs) : InputMismatch(nnf_inputs[i])
          /\ Constructed => /\ DOMAIN _inputs = Names(nnf_inputs)
                            /\ DroppedInputs \cap DOMAIN _inputs = {})
    /\ [][(pc = "Ready" /\ DOMAIN feed_data' \cap Names(nnf_inputs) = {}) => _inputs' = _inputs]_vars

\* A session built from an artifact that declares a strict, non-empty subset of the
\* caller's inputs is running a call whose feed names the dropped input
C11_Witness ==
    /\ pc = "invoke"
    /\ nnf_inputs # <<>>
    /\ "x" \in DroppedInputs
    /\ "x" \in DOMAIN feed_data
    /\ "x" \notin DOMAIN _inputs

----------------------------------------------------------------------------
(* C12: the build pipeline *)

\* The external steps of a build-enabled construction, in the order of the code
Pipeline == <<"export", "codegen", "patch", "build", "load">>

\* The external steps taken so far, in the order taken
StepsTaken ==
    LET IsExternal(s) == s \in ExternalSteps
    IN  SelectSeq(trace, IsExternal)

IsPrefix(s, t) == Len(s) <= Len(t) /\ s = SubSeq(t, 1, Len(s))

\* Binding validation has begun, or is over
ValidationBegun ==
    pc \in {"bind_inputs", "extern_result_memory", "bind_outputs", "Ready", "invoke", "scan"}

StepFailures == {Pipeline[i] \o " failed" : i \in 1..Len(Pipeline)}

\* C12: with the build enabled the steps taken are at every moment a prefix of
\* export, codegen, patch, build, load (each at most once, none skipped, no
\* retry), and binding validation begins only after all five; a construction
\* that failed in a step stopped right at that step; a failed construction takes
\* no further step at all, so it never becomes Ready, and no artifact was or
\* will be invoked on it.
C12_PipelineOrder ==
    /\ [](/\ _build_nnf => IsPrefix(StepsTaken, Pipeline)
          /\ (_build_nnf /\ ValidationBegun) => StepsTaken = Pipeline
          /\ (pc = "Failed" /\ err.what \in StepFailures) =>
                (StepsTaken # <<>> /\ err.what = StepsTaken[Len(StepsTaken)] \o " failed")
          /\ pc = "Failed" => (invoked = 0 /\ result = NoErr /\ feed_data = EmptyDict))
    /\ [][pc # "Failed"]_vars

\* The build command failed after export, code generation and patching
C12_Witness ==
    /\ pc = "Failed"
    /\ _build_nnf
    /\ err.what = "build failed"
    /\ StepsTaken = <<"export", "codegen", "patch", "build">>

----------------------------------------------------------------------------
(* C13: what a run changes in the input bindings *)

\* C13: a run writes the input bindings only when its feed is applied, and then
\* only the slots that are bound and named in the feed, each with the fed
\* tensor; every other slot keeps its reference and feed names without a slot
\* are ignored. The bound names are the artifact's declared input names before,
\* during and after every call. The artifact is invoked once per call, after
\* the whole feed has been applied: it runs on the bindings the feed left.
C13_FeedWritesOnlyBoundSlots ==
    /\ [](/\ Constructed => DOMAIN _inputs = Names(nnf_inputs)
          /\ pc = "invoke" => invoked = 0
          /\ pc = "scan" =>
                /\ invoked = 1
                /\ \A b \in DOMAIN outData : outData[b] = ArtifactResult(_inputs))
    /\ [][/\ pc = "Ready" =>
                \A name \in DOMAIN _inputs :
                    _inputs'[name] = IF name \in DOMAIN feed_data'
                                     THEN cast_pytorch_tensor(feed_data'[name])
                                     ELSE _inputs[name]
          /\ pc \in {"invoke", "scan"} => _inputs' = _inputs]_vars

\* A call whose feed names an unknown input and omits the bound slot x, which
\* still holds the tensor an earlier call fed
C13_Witness ==
    /\ pc = "scan"
    /\ "unknown" \in DOMAIN feed_data
    /\ "x" \in DOMAIN _inputs \ DOMAIN feed_data
    /\ _inputs["x"].kind = "feed"
    /\ "w" \in DOMAIN _inputs \cap DOMAIN feed_data
    /\ _inputs["w"] = feed_data["w"]

----------------------------------------------------------------------------
(* C14: what a contract-mismatch failure reports *)

\* The failure names descriptor desc and carries the artifact's value theirs and
\* the caller contract's value ours
Reports(desc, theirs, ours) ==
    /\ err.type = "AssertionError"
    /\ Len(err.args) = 3
    /\ err.args[1] = desc.name
    /\ ToString(err.args[2]) = ToString(theirs)
    /\ ToString(err.args[3]) = ToString(ours)

\* The artifact descriptor a failure is about: the one named first in its report
Offending(descs) ==
    LET i == CHOOSE j \in 1..Len(descs) : descs[j].name = err.args[1]
    IN  descs[i]

\* C14: every contract-mismatch failure of the binding is an assertion failure
\* that names the offending artifact descriptor; a missing input names it alone,
\* an input shape (dtype) mismatch carries the artifact's shape (dtype) and the
\* resolved caller shape (dtype), and an output shape (dtype) mismatch carries
\* the artifact's shape (dtype) and the shape (dtype) of the caller's output
\* descriptor of that name, whether or not an input has that name too.
C14_MismatchReportsBothValues ==
    pc = "Failed" =>
        /\ err.what = "nnf requires input, absent from session input desc" =>
              /\ err.type = "AssertionError"
              /\ err.args = <<Offending(nnf_inputs).name>>
        /\ err.what = "nnf requires input with shape" =>
              LET desc == Offending(nnf_inputs)
              IN  Reports(desc, desc.shape, RealInputs[desc.name].shape)
        /\ err.what = "nnf requires input with type" =>
              LET desc == Offending(nnf_inputs)
              IN  Reports(desc, desc.dtype, RealInputs[desc.name].dtype)
        /\ err.what = "nnf requires output with shape" =>
              LET desc == Offending(nnf_outputs)
              IN  Reports(desc, desc.shape, RealOutputs[desc.name].shape)
        /\ err.what = "nnf requires output with type" =>
              LET desc == Offending(nnf_outputs)
              IN  Reports(desc, desc.dtype, RealOutputs[desc.name].dtype)

----------------------------------------------------------------------------
(* C15: dynamic dimensions in the binding comparison *)

\* Two different shapes of one rank that differ only where one of them holds
\* the dynamic marker
DiffersOnlyAtDynamic(a, b) == a # b /\ same_up_to_dynamic(a, b)

\* Artifact descriptor desc has a shape that differs from the one of the same
\* name in real (the resolved inputs, or the caller's outputs) only at dynamic
\* positions
DynamicIn(desc, real) ==
    /\ desc.name \in DOMAIN real
    /\ DiffersOnlyAtDynamic(desc.shape, real[desc.name].shape)

DynamicInput(desc) == DynamicIn(desc, RealInputs)

DynamicOutput(desc) == DynamicIn(desc, RealOutputs)

\* C15 as stated: a dynamic dimension matches any concrete size, so no
\* construction fails at the shape comparison of an artifact descriptor whose
\* shape has the rank of the caller's and differs from it only at positions
\* where one of the two holds the dynamic marker.
C15_DynamicMatchesAnySize ==
    pc = "Failed" =>
        /\ err.what = "nnf requires input with shape" => ~DynamicInput(Offending(nnf_inputs))
        /\ err.what = "nnf requires output with shape" =>
              \A i \in 1..Len(nnf_outputs) : ~DynamicOutput(nnf_outputs[i])

\* C15 amended: the binding comparison is exact, the dynamic marker equal to
\* itself alone. Once the artifact's inputs (outputs) have been validated, an
\* artifact input (output) whose shape differs from the resolved caller shape
\* only at dynamic positions means the construction failed.
C15_DynamicMatchesOnlyDynamic ==
    LET real_inputs == RealInputs
        real_outputs == RealOutputs
    IN  /\ (pc # "bind_inputs" /\ \E i \in 1..Len(nnf_inputs) : DynamicIn(nnf_inputs[i], real_inputs))
              => pc = "Failed"
        /\ (\E i \in 1..Len(nnf_outputs) : DynamicIn(nnf_outputs[i], real_outputs))
              => pc = "Failed"

\* The shape-mismatch failure of an input the artifact declares dynamic and the
\* caller declares with a concrete size, the dtypes being equal
C15_Witness ==
    /\ pc = "Failed"
    /\ err.what = "nnf requires input with shape"
    /\ err.args = <<"x", SDyn, S1>>
    /\ Offending(nnf_inputs).dtype = RealInputs["x"].dtype

----------------------------------------------------------------------------
(* C16: the caller's live model *)

\* C16: no step of the construction or of a run changes the caller's live
\* model: its parameters, its buffers, their values and their device placement
\* are after every step what they were before it, whatever the device argument.
C16_LiveModelUntouched == [][model' = model]_vars

----------------------------------------------------------------------------
(* C17: construction with the build disabled *)

\* The steps that produce the artifact
BuildSteps == {"export", "codegen", "patch", "build"}

\* Everything the binding validation checks holds of the session
ValidationPassed ==
    LET real_inputs == RealInputs
        real_outputs == RealOutputs
    IN  /\ ~(training_mode(_codegen_flags) /\ WeightCollision)
        /\ Names(nnf_inputs) \subseteq AllowedInputNames
        /\ \A i \in 1..Len(nnf_inputs) :
              LET desc == nnf_inputs[i]
              IN  /\ desc.shape = real_inputs[desc.name].shape
                  /\ desc.dtype = real_inputs[desc.name].dtype
        /\ Truthy(Get(_codegen_flags, "extern_result_memory", 0))
        /\ \A i \in 1..Len(nnf_outputs) :
              LET desc == nnf_outputs[i]
              IN  IF desc.name \in DOMAIN real_outputs
                  THEN /\ desc.shape = real_outputs[desc.name].shape
                       /\ desc.dtype = real_outputs[desc.name].dtype
                  ELSE training_mode(_codegen_flags)

\* C17: with the build disabled the exporter, the code generator, the patch and
\* the build never run, at any point of the construction or after it; a session
\* constructed that way has still loaded the artifact, after which the whole
\* binding validation ran and passed: inputs resolved and matching, the
\* extern_result_memory flag truthy, outputs allowed and matching, and a slot
\* (buffer) bound for every declared input (output).
C17_BuildDisabledStillValidates ==
    ~_build_nnf =>
        /\ Range(trace) \cap BuildSteps = {}
        /\ ValidationBegun => StepsTaken = <<"load">>
        /\ Constructed =>
              /\ ValidationPassed
              /\ DOMAIN _inputs = Names(nnf_inputs)
              /\ DOMAIN _outputs = Names(nnf_outputs)

\* A session constructed with the build disabled from an artifact that declares
\* inputs and outputs
C17_Witness ==
    /\ pc = "Ready"
    /\ ~_build_nnf
    /\ nnf_inputs # <<>>
    /\ nnf_outputs # <<>>
    /\ trace[Len(trace)] = "load"

----------------------------------------------------------------------------
(* C18: the model format check *)

FormatError == pc = "Failed" /\ err.what = "format not supported yet"

\* C18: an unsupported model format fails the construction eagerly. The failure
\* names the rejected format, which is not onnx, and at that point nothing else
\* has happened: no forward call for contract inference, no work directory, no
\* export, code generation, patch, build or load, no field set. Conversely every
\* construction that got past its first step, and so every one that inferred a
\* contract, made a directory or ran an external step, has the format onnx.
C18_FormatCheckedFirst ==
    /\ FormatError =>
          /\ err.args # <<"onnx">>
          /\ trace = <<>>
          /\ _model_format = ""
          /\ _torch_weights = <<>> /\ _input_desc = <<>> /\ _output_desc = <<>>
    /\ (pc # "new" /\ ~FormatError) => _model_format = "onnx"
    /\ trace # <<>> => _model_format = "onnx"

\* The construction with model_format tensorflow has failed
C18_Witness ==
    /\ FormatError
    /\ err.args = <<"tensorflow">>
    /\ trace = <<>>

----------------------------------------------------------------------------
(* C19: slots bound to weights *)

\* The bound slots named like a weight (parameter or buffer) of the model
WeightSlots == DOMAIN _inputs \cap WeightNames(_torch_weights)

\* No run_by_nnf call has begun on the constructed session
NeverRun == pc = "Ready" /\ result = NoErr

\* C19 as stated: a slot named like a weight, bound to that weight's buffer when
\* the session was built, is bound to it at every later moment, whatever runs
\* have been made and whatever they fed.
C19_WeightSlotStaysBound ==
    Constructed => \A name \in WeightSlots : _inputs[name] = WeightRef(name)

\* C19 amended: a freshly built session binds every slot named like a weight to
\* that weight's buffer; a slot bound to its weight's buffer stays bound to it
\* over every step except the feed of a call that has an entry under the slot's
\* name, and that feed rebinds the slot to the fed tensor.
C19_WeightSlotStaysBoundUnlessFed ==
    /\ [](NeverRun => \A name \in WeightSlots : _inputs[name] = WeightRef(name))
    /\ [][Constructed =>
            \A name \in WeightSlots :
                _inputs[name] = WeightRef(name) =>
                    _inputs'[name] = IF pc = "Ready" /\ name \in DOMAIN feed_data'
                                     THEN cast_pytorch_tensor(feed_data'[name])
                                     ELSE WeightRef(name)]_vars

\* After a call that fed x alone and returned, the slot of weight w is still
\* bound to the weight's buffer
C19_Witness ==
    /\ pc = "Ready"
    /\ result.type = "return"
    /\ "w" \in WeightSlots
    /\ _inputs["w"] = WeightRef("w")
    /\ "x" \in DOMAIN _inputs
    /\ _inputs["x"].kind = "feed"

----------------------------------------------------------------------------
(* C20: the bindings the artifact is invoked on *)

\* C20: whenever the artifact has been invoked by a call, every declared input
\* slot it ran on holds a live buffer, none holds None; this includes the first
\* call on a session, whose feed may omit a declared input that is no weight.
C20_NoUnboundSlotAtInvocation ==
    (pc = "scan" /\ invoked = 1) => \A name \in DOMAIN _inputs : _inputs[name] # NoneVal

====
